---- MODULE Spec2Model ----
(***************************************************************************)
(* Model of the OTA update worker: the manifest endpoint (GET /manifest),  *)
(* the publish endpoint (POST /upload), the update catalog (D1) and the    *)
(* asset store (R2).  Every await of a handler is a separate step, so that *)
(* requests handled in parallel interleave at the points where the code    *)
(* yields.                                                                 *)
(***************************************************************************)
EXTENDS Integers, Sequences, FiniteSets, TLC

(* ---------------------------------------------------------------------- *)
(* Bounds                                                                  *)
(* ---------------------------------------------------------------------- *)
\* when requests are handled one after another: the manifests delivered and
\* the uploads accepted in one behaviour
SeqManifests == 1
SeqUploads == 2
\* the same when requests are handled in parallel
ConcManifests == 1
ConcUploads == 2
\* the same when downloads of one update run in parallel
DlManifests == 2
DlUploads == 2
\* the same when operations on the catalog and the store can fail
FaultManifests == 1
FaultUploads == 2
\* the same when the catalog already holds an update published by an earlier
\* version of the service
CfgManifests == 1
CfgUploads == 1
\* the same when requests are handled in parallel and another cohort already
\* holds an update
ParManifests == 1
ParUploads == 2
\* the same when requests are handled in parallel and operations can fail
RaceManifests == 1
RaceUploads == 2
\* the same when uploads carry file parts with unusual field and file names
PartsManifests == 1
PartsUploads == 2
\* the objects a folder holds when it is deleted, and the objects one page of
\* a listing holds
MaxObjects == 3
MaxPage == 2
\* the clock runs from 0 to MaxClock
MaxClock == 1

\* the requests in flight at one time
Slots == {1, 2}

(* ---------------------------------------------------------------------- *)
(* JavaScript values                                                       *)
(* ---------------------------------------------------------------------- *)
\* a header, form field or binding that is not there
UNDEF == "undefined"

\* a number: an integer or NaN
Num(n) == [nan |-> FALSE, n |-> n]
NaN == [nan |-> TRUE, n |-> 0]

\* a < b and a >= b on numbers: every comparison with NaN is false
JsLt(a, b) == ~a.nan /\ ~b.nan /\ a.n < b.n
JsGe(a, b) == ~a.nan /\ ~b.nan /\ a.n >= b.n

\* parseInt(v, 10) on the header values of the model
ParseInt(v) ==
  CASE v = "0" -> Num(0)
    [] v = "1" -> Num(1)
    [] v = "2" -> Num(2)
    [] OTHER -> NaN

\* Number.prototype.toString
NumToString(a) ==
  IF a.nan THEN "NaN"
  ELSE CASE a.n = 0 -> "0" [] a.n = 1 -> "1" [] a.n = 2 -> "2" [] OTHER -> "?"

\* file names are sequences of their dot-separated segments
\* ("bundle.js" is <<"bundle", "js">>): lastIndexOf(".") and substring
HasDot(filename) == Len(filename) > 1
ExtOf(filename) == IF HasDot(filename) THEN filename[Len(filename)] ELSE ""

(* ---------------------------------------------------------------------- *)
(* Catalog: registered apps (created out of band)                          *)
(* ---------------------------------------------------------------------- *)
apps == { [id |-> "a1", apiKey |-> "k1"], [id |-> "a2", apiKey |-> "k2"] }

NOAPP == [id |-> UNDEF, apiKey |-> UNDEF]

\* select ... where api_key = ? limit 1
getAppByApiKey(apiKey) ==
  IF \E a \in apps : a.apiKey = apiKey
  THEN CHOOSE a \in apps : a.apiKey = apiKey
  ELSE NOAPP

Platform == {"ios", "android"}

(* ---------------------------------------------------------------------- *)
(* Hashing and the asset store                                             *)
(* ---------------------------------------------------------------------- *)
\* SHA-256 of the bytes, in the two encodings
computeFileHash(data, encoding) == <<encoding, "sha256", data>>

BUCKET_URL == "https://bucket"

\* object keys are the segments of `${appId}/${channel}/${runtimeVersion}/${updateId}/${name}`
ObjectPath(appId, channel, runtimeVersion, updateId, name) ==
  <<appId, channel, runtimeVersion, updateId, name>>

getFileUrl(filePath) == <<BUCKET_URL, filePath>>

\* mrmime lookup, restricted to the extensions of the model
MimeLookup(ext) ==
  CASE ext = "js" -> "text/javascript"
    [] ext = "png" -> "image/png"
    [] ext = "json" -> "application/json"
    [] OTHER -> ""

\* the argument is the extension with its leading dot, or a file name
getContentType(ext) ==
  IF ext = "hbc" THEN "application/javascript"
  ELSE IF MimeLookup(ext) # "" THEN MimeLookup(ext)
  ELSE "application/octet-stream"

VARIABLES
  env,        \* the worker's bindings: MAX_UPDATES_TO_KEEP, ALLOWED_UPLOAD_IPS
  mode,       \* "seq": one request at a time; "conc": requests in parallel;
              \* "dl": downloads in parallel, one upload at a time;
              \* "fault": one request at a time, operations can fail
  catalog,    \* the rows of the updates table
  bucket,     \* the objects of the R2 bucket: a function from key to bytes
  now,        \* the clock read by new Date()
  nextId,     \* the number of update ids handed out by crypto.randomUUID()
  req,        \* the request each slot is handling, and where it stands
  tasks,      \* background tasks registered with waitUntil, not yet run
  cap,        \* the manifests delivered and uploads accepted at most
  delivered,  \* history: per update id, the manifests delivered for it
  published,  \* history: every row ever inserted
  lastAcked   \* history: per cohort, the id of the last upload answered 200

vars == <<env, mode, catalog, bucket, now, nextId, req, tasks, cap,
          delivered, published, lastAcked>>


(* ---------------------------------------------------------------------- *)
(* Values shared by the handlers                                           *)
(* ---------------------------------------------------------------------- *)
\* file contents: opaque bytes, or the encoding of a JSON value
Bytes(name) == [valid |-> FALSE, value |-> name]
JsonText(v) == [valid |-> TRUE, value |-> v]
NoField == [valid |-> FALSE, value |-> UNDEF]

\* crypto.randomUUID(): the n-th identifier handed out
IdTable == <<"u1", "u2", "u3", "u4", "u5", "u6", "u7", "u8">>
randomUUID(n) == IdTable[n]
UpdateIds == { IdTable[i] : i \in 1..Len(IdTable) }

\* the sum of f over the finite set S
RECURSIVE SumOver(_, _)
SumOver(f, S) ==
  IF S = {} THEN 0
  ELSE LET x == CHOOSE y \in S : TRUE IN f[x] + SumOver(f, S \ {x})

NOROW == [id |-> UNDEF]
IDLE == [kind |-> "idle", pc |-> "idle"]

EmptyBody == [type |-> "empty"]
JsonBody(v) == [type |-> "json", json |-> v]

\* new Response(body, {status}); Response's default status is 200
Response(status, body) == [status |-> status, body |-> body, headers |-> <<>>]

CohortOf(r) == <<r.appId, r.channel, r.runtimeVersion, r.platform>>

\* the cohorts of the model: one cohort and the four that differ from it in
\* exactly one of app, channel, runtime version and platform
BaseCohort == <<"a1", "production", "1.0.0", "ios">>
Cohorts ==
  { BaseCohort,
    <<"a2", "production", "1.0.0", "ios">>,
    <<"a1", "staging", "1.0.0", "ios">>,
    <<"a1", "production", "2.0.0", "ios">>,
    <<"a1", "production", "1.0.0", "android">> }

(* ---------------------------------------------------------------------- *)
(* Update catalog queries (utils/db.ts)                                    *)
(* ---------------------------------------------------------------------- *)
\* a lookup that falls back to the other channels
CohortRowsAnyChannel(cat, appId, channel, runtimeVersion, platform) ==
  { r \in cat : /\ r.appId = appId
                /\ r.runtimeVersion = runtimeVersion
                /\ r.platform = platform }

\* where app_id = ? and channel = ? and runtime_version = ? and platform = ?
CohortRows(cat, appId, channel, runtimeVersion, platform) ==
  { r \in cat : /\ r.appId = appId
                /\ r.channel = channel
                /\ r.runtimeVersion = runtimeVersion
                /\ r.platform = platform }

\* order by created_at desc limit 1: the rows the query may return (rows
\* with equal created_at come in an order the query does not fix)
LatestRows(cat, appId, channel, runtimeVersion, platform) ==
  LET rows == CohortRows(cat, appId, channel, runtimeVersion, platform)
  IN { r \in rows : \A o \in rows : o.createdAt <= r.createdAt }

\* the IUpdateMetadata built from a row
RowToMetadata(row) ==
  [ id |-> row.id,
    createdAt |-> row.createdAt,
    runtimeVersion |-> row.runtimeVersion,
    channel |-> row.channel,
    platform |-> row.platform,
    launchAsset |-> [ key |-> row.launchAssetKey,
                      hash |-> row.launchAssetHash,
                      fileExtension |-> row.launchAssetFileExtension,
                      contentType |-> row.launchAssetContentType,
                      url |-> row.launchAssetUrl ],
    assets |-> row.assetsJson.value,
    commitHash |-> row.commitHash,
    expoConfigJson |-> row.expoConfigJson ]

\* the results getLatestUpdate may return: NOROW when the cohort is empty
getLatestUpdate(cat, appId, channel, runtimeVersion, platform) ==
  LET rows == LatestRows(cat, appId, channel, runtimeVersion, platform)
  IN IF rows = {} THEN {NOROW} ELSE { RowToMetadata(r) : r \in rows }

\* the row saveUpdate inserts
saveUpdate(appId, metadata) ==
  [ id |-> metadata.id,
    appId |-> appId,
    channel |-> metadata.channel,
    runtimeVersion |-> metadata.runtimeVersion,
    platform |-> metadata.platform,
    createdAt |-> metadata.createdAt,
    lastDownloadedAt |-> -1,
    launchAssetKey |-> metadata.launchAsset.key,
    launchAssetHash |-> metadata.launchAsset.hash,
    launchAssetFileExtension |-> metadata.launchAsset.fileExtension,
    launchAssetContentType |-> metadata.launchAsset.contentType,
    launchAssetUrl |-> metadata.launchAsset.url,
    assetsJson |-> JsonText(metadata.assets),
    downloadCount |-> 0,
    commitHash |-> metadata.commitHash,
    expoConfigJson |-> metadata.expoConfigJson ]

(* ---------------------------------------------------------------------- *)
(* Manifest endpoint (routes/manifest.ts)                                  *)
(* ---------------------------------------------------------------------- *)
\* z.string().min(1)
NonEmptyString(v) == v # UNDEF /\ v # ""

\* a schema that takes any non-empty platform
manifestHeadersSchemaAnyPlatform(h) ==
  /\ NonEmptyString(h.appId)
  /\ NonEmptyString(h.runtimeVersion)
  /\ NonEmptyString(h.platform)
  /\ NonEmptyString(h.channel)

\* manifestHeadersSchema.safeParse(...).success
manifestHeadersSchema(h) ==
  /\ NonEmptyString(h.appId)
  /\ NonEmptyString(h.runtimeVersion)
  /\ h.platform \in Platform
  /\ NonEmptyString(h.channel)

\* .optional().default("0").transform((v) => parseInt(v, 10))
ProtocolVersionOf(h) ==
  ParseInt(IF h.protocolVersion = UNDEF THEN "0" ELSE h.protocolVersion)

sendMultipartResponse(content, fieldName, protocolVersion) ==
  [ status |-> 200,
    body |-> [ type |-> "multipart",
               boundary |-> "ExpoUpdateBoundary",
               parts |-> << [ name |-> fieldName,
                              contentType |-> "application/json",
                              json |-> content ] >> ],
    headers |-> [ protocolVersion |-> NumToString(protocolVersion),
                  sfvVersion |-> "0",
                  cacheControl |-> "private, max-age=0",
                  contentType |-> "multipart/mixed; boundary=ExpoUpdateBoundary" ] ]

NoUpdateAvailableDirective == [type |-> "noUpdateAvailable"]

\* the directive only from protocol version 2 on
sendNoUpdateAvailableFrom2(protocolVersion) ==
  IF JsLt(protocolVersion, Num(2))
  THEN Response(404, EmptyBody)
  ELSE sendMultipartResponse(NoUpdateAvailableDirective, "directive",
                             protocolVersion)

sendNoUpdateAvailable(protocolVersion) ==
  IF JsLt(protocolVersion, Num(1))
  THEN Response(404, EmptyBody)
  ELSE sendMultipartResponse(NoUpdateAvailableDirective, "directive",
                             protocolVersion)

\* the IUpdateManifest of an update
BuildManifest(latestUpdate, channel, expoClient) ==
  [ id |-> latestUpdate.id,
    createdAt |-> latestUpdate.createdAt,
    runtimeVersion |-> latestUpdate.runtimeVersion,
    launchAsset |-> latestUpdate.launchAsset,
    assets |-> latestUpdate.assets,
    metadata |-> [channel |-> channel],
    extra |-> [expoClient |-> expoClient, channel |-> channel] ]

\* a handler without the currency check
IsCurrentNever(currentUpdateId, latestUpdate) == FALSE

\* currentUpdateId && currentUpdateId === latestUpdate.id
IsCurrent(currentUpdateId, latestUpdate) ==
  /\ currentUpdateId # UNDEF
  /\ currentUpdateId # ""
  /\ currentUpdateId = latestUpdate.id

EmptyConfig == "{}"

\* the bucket object read by the config fallback
ExpoConfigPath(h, updateId) ==
  ObjectPath(h.appId, h.channel, h.runtimeVersion, updateId, <<"expoConfig", "json">>)

\* storage.downloadFile + JSON.parse, the catch leaving the empty object
ConfigFromBucket(bkt, path) ==
  IF path \in DOMAIN bkt /\ bkt[path].valid THEN bkt[path].value ELSE EmptyConfig

\* a handler that never reads expo_config_json of the row
RowConfigParsesNever(latestUpdate) == FALSE

\* JSON.parse(latestUpdate.expoConfigJson) succeeds
RowConfigParses(latestUpdate) ==
  /\ latestUpdate.expoConfigJson # NoField
  /\ latestUpdate.expoConfigJson.valid


(* ---------------------------------------------------------------------- *)
(* Requests                                                                *)
(* ---------------------------------------------------------------------- *)
NORESP == Response(0, EmptyBody)

\* the values new Date() may return: the clock is read where the code reads
\* it, and time may have passed since it was last read
Later == now..MaxClock

ManifestHeadersOf(c, cur, pv) ==
  [ appId |-> c[1], channel |-> c[2], runtimeVersion |-> c[3],
    platform |-> c[4], currentUpdateId |-> cur, protocolVersion |-> pv ]

BaseHeaders == ManifestHeadersOf(BaseCohort, UNDEF, UNDEF)

\* the manifest requests of the model: every cohort with and without the
\* optional headers, and the base request with one required header missing,
\* empty or invalid
ManifestRequests ==
  { ManifestHeadersOf(BaseCohort, cur, pv) :
      cur \in {UNDEF, "u1", "u2"}, pv \in {UNDEF, "0", "1", "2", "abc"} }
  \cup { ManifestHeadersOf(c, UNDEF, pv) : c \in Cohorts, pv \in {UNDEF, "1"} }
  \cup { [BaseHeaders EXCEPT !.appId = v] : v \in {UNDEF, ""} }
  \cup { [BaseHeaders EXCEPT !.runtimeVersion = v] : v \in {UNDEF, ""} }
  \cup { [BaseHeaders EXCEPT !.channel = v] : v \in {UNDEF, ""} }
  \cup { [BaseHeaders EXCEPT !.platform = v, !.protocolVersion = pv] :
           v \in {UNDEF, "", "web"}, pv \in {UNDEF, "1"} }

\* fewer of them are tried when requests are handled in parallel
ConcManifestRequests ==
  { ManifestHeadersOf(BaseCohort, cur, pv) : cur \in {UNDEF, "u1"}, pv \in {UNDEF, "1"} }
  \cup { ManifestHeadersOf(<<"a1", "production", "1.0.0", "android">>, UNDEF, "1"),
         [BaseHeaders EXCEPT !.platform = "web"] }

\* the requests tried when several downloads of one update run in parallel
DownloadManifestRequests ==
  { ManifestHeadersOf(BaseCohort, cur, "1") : cur \in {UNDEF, "u1"} }
  \cup { [BaseHeaders EXCEPT !.platform = "web"] }

\* the requests tried when operations can fail
FaultManifestRequests ==
  { ManifestHeadersOf(BaseCohort, cur, pv) :
      cur \in {UNDEF, "u1"}, pv \in {UNDEF, "1"} }
  \cup { [BaseHeaders EXCEPT !.platform = "web"] }

\* the requests tried when the catalog already holds an update
ConfigManifestRequests ==
  { ManifestHeadersOf(BaseCohort, cur, "1") : cur \in {UNDEF, "u1"} }
  \cup { [BaseHeaders EXCEPT !.platform = "web"] }

\* the requests tried when another cohort already holds an update
ParManifestRequests ==
  { BaseHeaders, [BaseHeaders EXCEPT !.platform = "web"] }

\* the requests tried next to uploads with unusual file parts
PartsManifestRequests ==
  { BaseHeaders, [BaseHeaders EXCEPT !.platform = "web"] }

\* the request tried next to parallel uploads that can fail
RaceManifestRequests == { BaseHeaders }

ManifestInputs ==
  CASE mode = "seq" -> ManifestRequests
    [] mode = "conc" -> ConcManifestRequests
    [] mode = "dl" -> DownloadManifestRequests
    [] mode = "fault" -> FaultManifestRequests
    [] mode = "cfg" -> ConfigManifestRequests
    [] mode = "par" -> ParManifestRequests
    [] mode = "parts" -> PartsManifestRequests
    [] mode = "race" -> RaceManifestRequests

\* the requests of a kind that stand at one of the given places
InFlight(kind, pcs) ==
  Cardinality({ s \in Slots : req[s].kind = kind /\ req[s].pc \in pcs })

\* a response is handed to its client before anything else happens
NoResponsePending == \A s \in Slots : req[s].pc # "done"

\* s is the slot the next request goes to
FreeSlot(s) ==
  /\ NoResponsePending
  /\ req[s] = IDLE
  /\ \A t \in Slots : t < s => req[t] # IDLE
  /\ mode \in {"seq", "fault", "cfg", "parts"} => \A t \in Slots : req[t] = IDLE

\* the manifests delivered so far, whatever the update
DeliveredTotal == SumOver(delivered, UpdateIds)

ManifestCohort(h) == <<h.appId, h.channel, h.runtimeVersion, h.platform>>

AckedFor(h) ==
  IF ManifestCohort(h) \in Cohorts THEN lastAcked[ManifestCohort(h)] ELSE UNDEF

\* the request record of a manifest request that has not answered yet
ManifestRequest(h) ==
  [ kind |-> "manifest", pc |-> "lookup", h |-> h,
    latestUpdate |-> NOROW, resp |-> NORESP,
    touched |-> 0, scheduled |-> 0, catalogAtRead |-> {}, failedAt |-> "",
    ackedAtStart |-> AckedFor(h), ackedAtEnd |-> UNDEF ]

\* the handler returns: the response is what the client receives
Answer(r, resp) == [r EXCEPT !.pc = "done", !.resp = resp]

ManifestAnswer(r, resp) ==
  [Answer(r, resp) EXCEPT !.ackedAtEnd = AckedFor(r.h)]

\* manifestHandler up to its first await: header validation
ManifestStart(s, h) ==
  /\ FreeSlot(s)
  /\ DeliveredTotal + InFlight("manifest", {"lookup", "config"}) < cap.manifests
  /\ req' = [req EXCEPT ![s] =
       IF manifestHeadersSchema(h)
       THEN ManifestRequest(h)
       ELSE ManifestAnswer(ManifestRequest(h), Response(404, EmptyBody))]
  /\ UNCHANGED <<env, mode, catalog, bucket, now, nextId, tasks, cap, delivered, published, lastAcked>>

\* a handler that awaits the download-count write before it answers
DeliverAfterWrite(r, expoClient) ==
  [r EXCEPT !.pc = "countWrite", !.scheduled = @ + 1]

\* state 5, 7, 8: build the manifest, register the download-count task with
\* waitUntil, answer
Deliver(r, expoClient) ==
  [ ManifestAnswer(r, sendMultipartResponse(
        BuildManifest(r.latestUpdate, r.h.channel, expoClient),
        "manifest", ProtocolVersionOf(r.h)))
    EXCEPT !.scheduled = @ + 1 ]

\* getLatestUpdate resolves; the handler runs on to its next await
ManifestLookup(s) ==
  /\ NoResponsePending
  /\ req[s].kind = "manifest" /\ req[s].pc = "lookup"
  /\ LET h == req[s].h
         pv == ProtocolVersionOf(h)
     IN \E lu \in getLatestUpdate(catalog, h.appId, h.channel,
                                  h.runtimeVersion, h.platform) :
          LET r == [req[s] EXCEPT
                      !.latestUpdate = lu,
                      !.touched = @ + 1,
                      !.catalogAtRead = catalog]
          IN IF lu = NOROW \/ IsCurrent(h.currentUpdateId, lu)
             THEN /\ req' = [req EXCEPT ![s] =
                       ManifestAnswer(r, sendNoUpdateAvailable(pv))]
                  /\ UNCHANGED <<tasks, now, delivered>>
             ELSE IF RowConfigParses(lu)
             THEN /\ req' = [req EXCEPT ![s] = Deliver(r, lu.expoConfigJson.value)]
                  /\ now' \in Later
                  /\ tasks' = [tasks EXCEPT ![<<lu.id, now'>>] = @ + 1]
                  /\ delivered' = [delivered EXCEPT ![lu.id] = @ + 1]
             ELSE /\ req' = [req EXCEPT ![s] = [r EXCEPT !.pc = "config"]]
                  /\ UNCHANGED <<tasks, now, delivered>>
  /\ UNCHANGED <<env, mode, catalog, bucket, nextId, cap, published, lastAcked>>

\* storage.downloadFile resolves; the handler runs to its end
ManifestConfig(s) ==
  /\ NoResponsePending
  /\ req[s].kind = "manifest" /\ req[s].pc = "config"
  /\ LET r == [req[s] EXCEPT !.touched = @ + 1]
         expoClient == ConfigFromBucket(bucket, ExpoConfigPath(r.h, r.latestUpdate.id))
     IN /\ req' = [req EXCEPT ![s] = Deliver(r, expoClient)]
        /\ now' \in Later
        /\ tasks' = [tasks EXCEPT ![<<r.latestUpdate.id, now'>>] = @ + 1]
        /\ delivered' = [delivered EXCEPT ![r.latestUpdate.id] = @ + 1]
  /\ UNCHANGED <<env, mode, catalog, bucket, nextId, cap, published, lastAcked>>

\* a write that stamps created_at instead of last_downloaded_at
RecordDownloadStampsCreatedAt(cat, id, at) ==
  { IF r.id = id
    THEN [r EXCEPT !.downloadCount = @ + 1, !.createdAt = at]
    ELSE r : r \in cat }

\* a write of a count computed in the application from the row as inserted
RecordDownloadFromStaleRead(cat, id, at) ==
  { IF r.id = id
    THEN [r EXCEPT !.downloadCount = 1, !.lastDownloadedAt = at]
    ELSE r : r \in cat }

\* update updates set download_count = download_count + 1,
\* last_downloaded_at = ? where id = ?
RecordDownload(cat, id, at) ==
  { IF r.id = id
    THEN [r EXCEPT !.downloadCount = @ + 1, !.lastDownloadedAt = at]
    ELSE r : r \in cat }

\* a task registered with waitUntil runs
RunTask(id, at) ==
  /\ NoResponsePending
  /\ tasks[<<id, at>>] > 0
  /\ tasks' = [tasks EXCEPT ![<<id, at>>] = @ - 1]
  /\ catalog' = RecordDownload(catalog, id, at)
  /\ UNCHANGED <<env, mode, bucket, now, nextId, req, cap, delivered, published, lastAcked>>

\* the client has its response; the slot is free again
Collect(s) ==
  /\ req[s].pc = "done"
  /\ req' = [req EXCEPT ![s] = IDLE]
  /\ UNCHANGED <<env, mode, catalog, bucket, now, nextId, tasks, cap, delivered, published, lastAcked>>



\* the allow-list of the model, and the client addresses tried against it
AllowList == << <<"10.0.0.1">>, <<"2a02", "c7c", "86f8", "c000", "", "">> >>
AllowedV4 == <<"10.0.0.1">>
AllowedV6 == <<"2a02", "c7c", "86f8", "c000", "1", "2">>
BlockedIPs == { <<>>, <<"10.0.0.2">>, <<"2a02", "c7c", "86f8", "c001", "1", "2">> }

File(fieldName, filename, data) ==
  [fieldName |-> fieldName, filename |-> filename, data |-> data]

\* the two payloads of the model: a bare bundle, and a bundle without a file
\* extension that comes after an asset, with a config snapshot and metadata
Payloads ==
  { [ ip |-> AllowedV4,
      files |-> << File("bundle", <<"bundle", "js">>, Bytes("b1")) >>,
      commitHash |-> UNDEF, expoConfig |-> NoField, metadata |-> NoField ],
    [ ip |-> AllowedV6,
      files |-> << File("asset-0", <<"icon">>, Bytes("p1")),
                   File("bundle", <<"main">>, Bytes("b2")) >>,
      commitHash |-> "c1", expoConfig |-> JsonText("cfg1"),
      metadata |-> JsonText([ ios |-> << [path |-> <<"icon">>, ext |-> "png"] >>,
                              android |-> <<>> ]) ] }

ApiKeyOf(appId) == (CHOOSE a \in apps : a.id = appId).apiKey

UploadOf(c, p) ==
  [ ip |-> p.ip, apiKey |-> ApiKeyOf(c[1]),
    fields |-> [ channel |-> c[2], runtimeVersion |-> c[3], platform |-> c[4],
                 commitHash |-> p.commitHash, expoConfig |-> p.expoConfig,
                 metadata |-> p.metadata ],
    files |-> p.files ]

BasePayload == CHOOSE p \in Payloads : p.ip = AllowedV4

\* the bytes of the base payload's bundle under another field name and file
\* name
RenamedPayload ==
  [ BasePayload EXCEPT
      !.files = << File("file", <<"index", "ios", "bundle">>, Bytes("b1")) >> ]

\* uploads meant to be accepted
BaseUpload == UploadOf(BaseCohort, BasePayload)

ValidUploads ==
  { UploadOf(BaseCohort, p) : p \in Payloads \cup {RenamedPayload} }
  \cup { UploadOf(c, BasePayload) : c \in Cohorts }

\* the base upload with one thing wrong
DefectUploads ==
  { [BaseUpload EXCEPT !.ip = v] : v \in BlockedIPs }
  \cup { [BaseUpload EXCEPT !.apiKey = v] : v \in {UNDEF, "", "k0"} }
  \cup { [BaseUpload EXCEPT !.fields.channel = v] : v \in {UNDEF, ""} }
  \cup { [BaseUpload EXCEPT !.fields.runtimeVersion = v] : v \in {UNDEF, ""} }
  \cup { [BaseUpload EXCEPT !.fields.platform = v] : v \in {UNDEF, "web"} }
  \cup { [BaseUpload EXCEPT !.files = v] :
           v \in { <<>>,
                   << File("asset-0", <<"icon", "png">>, Bytes("p1")) >>,
                   << File("file", <<"bundle", "js">>, Bytes("b1")) >> } }

\* fewer of them are tried when requests are handled in parallel
ConcUploadRequests ==
  { UploadOf(BaseCohort, p) : p \in Payloads }
  \cup { UploadOf(<<"a1", "production", "1.0.0", "android">>, BasePayload),
         [BaseUpload EXCEPT !.ip = <<"10.0.0.2">>],
         [BaseUpload EXCEPT !.apiKey = "k0"],
         [BaseUpload EXCEPT !.files = <<>>] }

\* the uploads that feed the downloads
DownloadUploadRequests == { UploadOf(BaseCohort, p) : p \in Payloads }

\* the uploads tried when operations can fail
FaultUploadRequests ==
  { UploadOf(BaseCohort, p) : p \in Payloads }
  \cup { [BaseUpload EXCEPT !.apiKey = "k0"] }

\* the uploads tried when the catalog already holds an update
ConfigUploadRequests ==
  { UploadOf(BaseCohort, p) : p \in Payloads }
  \cup { [BaseUpload EXCEPT !.apiKey = "k0"] }

\* the uploads tried when another cohort already holds an update: to the base
\* cohort and to the other platform of its channel and runtime version
AndroidCohort == <<"a1", "production", "1.0.0", "android">>
ParUploadRequests ==
  { UploadOf(BaseCohort, p) : p \in Payloads }
  \cup { UploadOf(AndroidCohort, BasePayload), [BaseUpload EXCEPT !.apiKey = "k0"] }

\* uploads whose file parts carry unusual names: an assets part whose file
\* name ends in .bundle and no part named bundle; an asset with the file name
\* the bundle is stored under; an asset named expoConfig.json next to an
\* expoConfig field; two assets with one file name
PartsPayloads ==
  { [ BasePayload EXCEPT
        !.files = << File("asset-0", <<"index", "ios", "bundle">>, Bytes("b1")),
                     File("asset-1", <<"icon", "png">>, Bytes("p1")) >> ],
    [ BasePayload EXCEPT
        !.files = << File("bundle", <<"main", "js">>, Bytes("b1")),
                     File("assets", <<"bundle", "js">>, Bytes("p1")) >> ],
    [ BasePayload EXCEPT
        !.files = << File("bundle", <<"bundle", "js">>, Bytes("b1")),
                     File("assets", <<"expoConfig", "json">>, Bytes("p1")) >>,
        !.expoConfig = JsonText("cfg1") ],
    [ BasePayload EXCEPT
        !.files = << File("bundle", <<"bundle", "js">>, Bytes("b1")),
                     File("assets", <<"icon", "png">>, Bytes("p1")),
                     File("assets", <<"icon", "png">>, Bytes("p2")) >> ] }

PartsUploadRequests ==
  { UploadOf(BaseCohort, p) : p \in PartsPayloads }
  \cup { [BaseUpload EXCEPT !.apiKey = "k0"] }

\* the parallel uploads that can fail: to the base cohort, with a bundle, an
\* asset and a configuration
RaceUploadRequests ==
  { UploadOf(BaseCohort, p) : p \in { q \in Payloads : q.expoConfig # NoField } }

UploadInputs ==
  CASE mode = "seq" -> ValidUploads \cup DefectUploads
    [] mode = "conc" -> ConcUploadRequests
    [] mode = "dl" -> DownloadUploadRequests
    [] mode = "fault" -> FaultUploadRequests
    [] mode = "cfg" -> ConfigUploadRequests
    [] mode = "par" -> ParUploadRequests
    [] mode = "parts" -> PartsUploadRequests
    [] mode = "race" -> RaceUploadRequests

(* ---------------------------------------------------------------------- *)
(* Publish endpoint (routes/upload.ts)                                     *)
(* ---------------------------------------------------------------------- *)
\* IP addresses are sequences of their colon-separated groups: an IPv4
\* address is one group, <<>> is an absent cf-connecting-ip header
HasColon(ip) == Len(ip) > 1
\* ip.split(":").slice(0, 4).join(":")
Prefix4(ip) == SubSeq(ip, 1, IF Len(ip) < 4 THEN Len(ip) ELSE 4)

\* allowedList.some(...)
IsAllowed(clientIP, allowedList) ==
  \E i \in 1..Len(allowedList) :
    \/ clientIP = allowedList[i]
    \/ /\ HasColon(clientIP) /\ HasColon(allowedList[i])
       /\ Prefix4(clientIP) = Prefix4(allowedList[i])

\* a gate that only checks the address when the header is there
IPGateAbsentPasses(allowedIPs, clientIP) ==
  allowedIPs # <<>> => (clientIP = <<>> \/ IsAllowed(clientIP, allowedIPs))

\* the network-level gate lets the request through
IPGate(allowedIPs, clientIP) ==
  allowedIPs # <<>> => (clientIP # <<>> /\ IsAllowed(clientIP, allowedIPs))

\* a schema that takes any non-empty platform
uploadFormFieldsSchemaAnyPlatform(fields) ==
  /\ NonEmptyString(fields.channel)
  /\ NonEmptyString(fields.runtimeVersion)
  /\ NonEmptyString(fields.platform)

\* uploadFormFieldsSchema.safeParse(...).success
uploadFormFieldsSchema(fields) ==
  /\ NonEmptyString(fields.channel)
  /\ NonEmptyString(fields.runtimeVersion)
  /\ fields.platform \in Platform

\* the transform of expoConfig and metadata: the parsed value, or null
\* (NoField) when the field is absent or does not parse
ParseOptionalJson(val) == IF val.valid THEN val ELSE NoField

\* filename.endsWith(".bundle")
EndsWithBundle(filename) == HasDot(filename) /\ ExtOf(filename) = "bundle"

IsBundleFile(file) == file.fieldName = "bundle" \/ EndsWithBundle(file.filename)
IsAssetFile(file) == file.fieldName = "assets" \/ file.fieldName \in {"asset-0", "asset-1"}

\* files.find(...): the index of the bundle part, 0 when there is none
\* a handler that takes the first file part for the bundle, whatever it is
BundleIndexFirstPart(files) == IF Len(files) > 0 THEN 1 ELSE 0

BundleIndex(files) ==
  IF \E i \in 1..Len(files) : IsBundleFile(files[i])
  THEN CHOOSE i \in 1..Len(files) :
         IsBundleFile(files[i]) /\ \A j \in 1..(i - 1) : ~IsBundleFile(files[j])
  ELSE 0

\* files.filter(...)
AssetFiles(files) == SelectSeq(files, IsAssetFile)

\* the bundle's extension, .hbc when the file name has none
BundleExt(bundleFile) ==
  IF bundleFile.filename # <<>> /\ HasDot(bundleFile.filename)
  THEN ExtOf(bundleFile.filename)
  ELSE "hbc"

\* asset.filename || `asset-${index}`
AssetFilename(asset, index) ==
  IF asset.filename # <<>> THEN asset.filename
  ELSE << <<"asset-0", "asset-1", "asset-2">>[index] >>

\* metadata.fileMetadata?.[platform]?.assets || [], null without metadata
AssetMetadata(metadata, platform) ==
  IF metadata = NoField THEN <<>> ELSE metadata.value[platform]

\* the extension of an asset: the metadata hint for assets/<filename>, else
\* the file name's own extension
AssetExt(assetMetadata, filename) ==
  LET hits == SelectSeq(assetMetadata, LAMBDA m : m.path = filename)
  IN IF hits # <<>> /\ hits[1].ext # ""
     THEN hits[1].ext
     ELSE ExtOf(filename)

\* what the handler stores and records for one update
\* a launch asset keyed by where the bundle is stored
LaunchAssetKeyedByPath(data, bundleExt, bundlePath) ==
  [ key |-> computeFileHash(bundlePath, "hex"),
    hash |-> computeFileHash(data, "base64"),
    fileExtension |-> bundleExt,
    contentType |-> getContentType(bundleExt),
    url |-> getFileUrl(bundlePath) ]

\* updateMetadata.launchAsset: key and hash are the two encodings of the
\* SHA-256 of the bundle's bytes
LaunchAsset(data, bundleExt, bundlePath) ==
  [ key |-> computeFileHash(data, "hex"),
    hash |-> computeFileHash(data, "base64"),
    fileExtension |-> bundleExt,
    contentType |-> getContentType(bundleExt),
    url |-> getFileUrl(bundlePath) ]

UpdatePlan(appId, fields, files, updateId, createdAt) ==
  LET bundleFile == files[BundleIndex(files)]
      assetFiles == AssetFiles(files)
      bundleExt == BundleExt(bundleFile)
      dir(name) == ObjectPath(appId, fields.channel, fields.runtimeVersion,
                              updateId, name)
      assetMetadata == AssetMetadata(ParseOptionalJson(fields.metadata),
                                     fields.platform)
      assetOf(i) ==
        LET filename == AssetFilename(assetFiles[i], i)
            ext == AssetExt(assetMetadata, filename)
        IN [ key |-> computeFileHash(assetFiles[i].data, "hex"),
             hash |-> computeFileHash(assetFiles[i].data, "base64"),
             fileExtension |-> ext,
             contentType |-> getContentType(ext),
             url |-> getFileUrl(dir(filename)) ]
      expoConfig == ParseOptionalJson(fields.expoConfig)
  IN [ bundlePath |-> dir(<<"bundle", bundleExt>>),
       bundleData |-> bundleFile.data,
       assetPaths |-> [i \in 1..Len(assetFiles) |->
                         dir(AssetFilename(assetFiles[i], i))],
       assetData |-> [i \in 1..Len(assetFiles) |-> assetFiles[i].data],
       hasConfig |-> expoConfig # NoField,
       configPath |-> dir(<<"expoConfig", "json">>),
       configData |-> expoConfig,
       updateMetadata |->
         [ id |-> updateId,
           createdAt |-> createdAt,
           runtimeVersion |-> fields.runtimeVersion,
           channel |-> fields.channel,
           platform |-> fields.platform,
           launchAsset |->
             LaunchAsset(bundleFile.data, bundleExt, dir(<<"bundle", bundleExt>>)),
           assets |-> [i \in 1..Len(assetFiles) |-> assetOf(i)],
           commitHash |-> fields.commitHash,
           expoConfigJson |-> NoField ] ]


\* a retention that defaults to one update when the binding is unset
maxUpdatesToKeepDefault1(binding) == IF binding = <<>> THEN 1 ELSE binding[1]

\* context.env.MAX_UPDATES_TO_KEEP || 0: the binding is <<>> when unset
maxUpdatesToKeep(binding) == IF binding = <<>> THEN 0 ELSE binding[1]

\* bucket.put
Put(bkt, path, data) == (path :> data) @@ bkt

\* the keys deleteFolder lists: those under `${appId}/${channel}/${runtimeVersion}/${id}/`
FolderKeys(bkt, appId, channel, runtimeVersion, id) ==
  { k \in DOMAIN bkt : SubSeq(k, 1, 4) = <<appId, channel, runtimeVersion, id>> }

\* a delete of everything stored for the channel and runtime version, which
\* the two platforms share
deleteFolderOfRuntime(bkt, appId, channel, runtimeVersion, id) ==
  [ k \in { q \in DOMAIN bkt : SubSeq(q, 1, 3) # <<appId, channel, runtimeVersion>> }
      |-> bkt[k] ]

\* storage.deleteFolder
deleteFolder(bkt, appId, channel, runtimeVersion, id) ==
  [ k \in DOMAIN bkt \ FolderKeys(bkt, appId, channel, runtimeVersion, id) |-> bkt[k] ]

\* a sweep that orders by created_at ascending and so retains the oldest
IdsToDeleteKeepOldest(cat, appId, channel, runtimeVersion, platform, keepCount) ==
  LET rows == CohortRows(cat, appId, channel, runtimeVersion, platform)
  IN IF Cardinality(rows) <= keepCount
     THEN { {} }
     ELSE { { r.id : r \in rows \ K } :
              K \in { K \in SUBSET rows :
                        /\ Cardinality(K) = keepCount
                        /\ \A k \in K : \A d \in rows \ K :
                             k.createdAt <= d.createdAt } }

\* a sweep that slices one row too late and keeps keepCount + 1 rows
IdsToDeleteKeepsOneMore(cat, appId, channel, runtimeVersion, platform, keepCount) ==
  LET rows == CohortRows(cat, appId, channel, runtimeVersion, platform)
  IN IF Cardinality(rows) <= keepCount + 1
     THEN { {} }
     ELSE { { r.id : r \in rows \ K } :
              K \in { K \in SUBSET rows :
                        /\ Cardinality(K) = keepCount + 1
                        /\ \A k \in K : \A d \in rows \ K :
                             k.createdAt >= d.createdAt } }

\* cleanupOldUpdates, the select: the sets of ids rows.slice(keepCount) may
\* hold (rows with equal created_at come in an order the query does not fix)
IdsToDelete(cat, appId, channel, runtimeVersion, platform, keepCount) ==
  LET rows == CohortRows(cat, appId, channel, runtimeVersion, platform)
  IN IF Cardinality(rows) <= keepCount
     THEN { {} }
     ELSE { { r.id : r \in rows \ K } :
              K \in { K \in SUBSET rows :
                        /\ Cardinality(K) = keepCount
                        /\ \A k \in K : \A d \in rows \ K :
                             k.createdAt >= d.createdAt } }

\* a sweep whose delete leaves the rows in the catalog
DeleteRowsKeepsRows(cat, ids) == cat

\* cleanupOldUpdates, the delete: where id in (...)
DeleteRows(cat, ids) == { r \in cat : r.id \notin ids }

\* the request record of an upload that has not answered yet
UploadRequest(u) ==
  [ kind |-> "upload", pc |-> "auth", u |-> u, appId |-> UNDEF,
    plan |-> <<>>, pendingAssets |-> {}, idsToDelete |-> {},
    resp |-> NORESP, reason |-> "", failedAt |-> "", touched |-> 0,
    wrote |-> 0 ]

\* a handler whose rejections tell the reasons apart
RejectByReason(r, reason) ==
  [Answer(r, Response(IF reason \in {"ip", "no-key", "bad-key"} THEN 401 ELSE 400,
                      JsonBody([error |-> reason])))
     EXCEPT !.reason = reason]

Reject(r, reason) ==
  [Answer(r, Response(404, EmptyBody)) EXCEPT !.reason = reason]

Success(r) == Answer(r, Response(200, JsonBody([success |-> TRUE])))

\* uploadHandler up to its first await: the IP gate and the API-key header
UploadStart(s, u) ==
  /\ FreeSlot(s)
  /\ mode = "dl" => \A t \in Slots : req[t].kind # "upload"
  /\ nextId + InFlight("upload", {"auth"}) < cap.uploads
  /\ req' = [req EXCEPT ![s] =
       IF ~IPGate(env.ALLOWED_UPLOAD_IPS, u.ip)
       THEN Reject(UploadRequest(u), "ip")
       ELSE IF u.apiKey = UNDEF \/ u.apiKey = ""
       THEN Reject(UploadRequest(u), "no-key")
       ELSE UploadRequest(u)]
  /\ UNCHANGED <<env, mode, catalog, bucket, now, nextId, tasks, cap, delivered, published, lastAcked>>

\* a handler that inserts the row without waiting for the assets and the
\* configuration to be stored
AfterBundleStraightToSave(plan) == "save"

\* where the handler goes once the bundle is stored
AfterBundle(plan) ==
  IF Len(plan.assetPaths) > 0 THEN "putAssets"
  ELSE IF plan.hasConfig THEN "putConfig"
  ELSE "save"

\* getAppByApiKey resolves; form parsing, validation, the update id, the
\* timestamp and the hashes follow without touching catalog or store
UploadAuth(s) ==
  /\ NoResponsePending
  /\ req[s].kind = "upload" /\ req[s].pc = "auth"
  /\ LET r == [req[s] EXCEPT !.touched = @ + 1]
         u == r.u
         app == getAppByApiKey(u.apiKey)
     IN IF app = NOAPP
        THEN /\ req' = [req EXCEPT ![s] = Reject(r, "bad-key")]
             /\ UNCHANGED <<nextId, now>>
        ELSE IF ~uploadFormFieldsSchema(u.fields)
        THEN /\ req' = [req EXCEPT ![s] = Reject(r, "fields")]
             /\ UNCHANGED <<nextId, now>>
        ELSE IF BundleIndex(u.files) = 0
        THEN /\ req' = [req EXCEPT ![s] = Reject(r, "no-bundle")]
             /\ UNCHANGED <<nextId, now>>
        ELSE /\ nextId < Len(IdTable)
             /\ nextId' = nextId + 1
             /\ now' \in Later
             /\ req' = [req EXCEPT ![s] =
                  [r EXCEPT !.pc = "putBundle",
                            !.appId = app.id,
                            !.plan = UpdatePlan(app.id, u.fields, u.files,
                                                randomUUID(nextId + 1), now')]]
  /\ UNCHANGED <<env, mode, catalog, bucket, tasks, cap, delivered, published, lastAcked>>

\* storage.uploadFile of the bundle resolves
UploadPutBundle(s) ==
  /\ NoResponsePending
  /\ req[s].kind = "upload" /\ req[s].pc = "putBundle"
  /\ LET r == req[s]
     IN /\ bucket' = Put(bucket, r.plan.bundlePath, r.plan.bundleData)
        /\ req' = [req EXCEPT ![s] =
             [r EXCEPT !.pc = AfterBundle(r.plan),
                       !.touched = @ + 1,
                       !.wrote = @ + 1,
                       !.pendingAssets = DOMAIN r.plan.assetPaths]]
  /\ UNCHANGED <<env, mode, catalog, now, nextId, tasks, cap, delivered, published, lastAcked>>

\* storage.uploadFile of one asset resolves (Promise.all: in any order)
UploadPutAsset(s, i) ==
  /\ NoResponsePending
  /\ req[s].kind = "upload" /\ req[s].pc = "putAssets"
  /\ i \in req[s].pendingAssets
  /\ LET r == req[s]
         rest == r.pendingAssets \ {i}
     IN /\ bucket' = Put(bucket, r.plan.assetPaths[i], r.plan.assetData[i])
        /\ req' = [req EXCEPT ![s] =
             [r EXCEPT !.pendingAssets = rest,
                       !.touched = @ + 1,
                       !.wrote = @ + 1,
                       !.pc = IF rest # {} THEN "putAssets"
                              ELSE IF r.plan.hasConfig THEN "putConfig"
                              ELSE "save"]]
  /\ UNCHANGED <<env, mode, catalog, now, nextId, tasks, cap, delivered, published, lastAcked>>

\* storage.uploadFile of expoConfig.json resolves
UploadPutConfig(s) ==
  /\ NoResponsePending
  /\ req[s].kind = "upload" /\ req[s].pc = "putConfig"
  /\ LET r == req[s]
     IN /\ bucket' = Put(bucket, r.plan.configPath, r.plan.configData)
        /\ req' = [req EXCEPT ![s] =
             [r EXCEPT !.pc = "save", !.touched = @ + 1, !.wrote = @ + 1]]
  /\ UNCHANGED <<env, mode, catalog, now, nextId, tasks, cap, delivered, published, lastAcked>>

\* saveUpdate resolves: the row is in the catalog; without retention the
\* handler answers
UploadSave(s) ==
  /\ NoResponsePending
  /\ req[s].kind = "upload" /\ req[s].pc = "save"
  /\ LET r == [req[s] EXCEPT !.touched = @ + 1, !.wrote = @ + 1]
         row == saveUpdate(r.appId, r.plan.updateMetadata)
     IN /\ catalog' = catalog \cup {row}
        /\ published' = published \cup {row}
        /\ IF maxUpdatesToKeep(env.MAX_UPDATES_TO_KEEP) <= 0
           THEN /\ req' = [req EXCEPT ![s] = Success(r)]
                /\ lastAcked' = [lastAcked EXCEPT ![CohortOf(row)] = row.id]
           ELSE /\ req' = [req EXCEPT ![s] = [r EXCEPT !.pc = "cleanupSelect"]]
                /\ lastAcked' = lastAcked
  /\ UNCHANGED <<env, mode, bucket, now, nextId, tasks, cap, delivered>>

\* the cohort an upload publishes to
UploadCohort(r) ==
  <<r.appId, r.u.fields.channel, r.u.fields.runtimeVersion, r.u.fields.platform>>

\* cleanupOldUpdates, its select resolves; with nothing to delete the
\* handler answers
UploadCleanupSelect(s) ==
  /\ NoResponsePending
  /\ req[s].kind = "upload" /\ req[s].pc = "cleanupSelect"
  /\ LET r == [req[s] EXCEPT !.touched = @ + 1]
         c == UploadCohort(r)
     IN \E ids \in IdsToDelete(catalog, c[1], c[2], c[3], c[4],
                               maxUpdatesToKeep(env.MAX_UPDATES_TO_KEEP)) :
          IF ids = {}
          THEN /\ req' = [req EXCEPT ![s] = Success(r)]
               /\ lastAcked' = [lastAcked EXCEPT ![c] = r.plan.updateMetadata.id]
          ELSE /\ req' = [req EXCEPT ![s] =
                    [r EXCEPT !.pc = "cleanupDelete", !.idsToDelete = ids]]
               /\ lastAcked' = lastAcked
  /\ UNCHANGED <<env, mode, catalog, bucket, now, nextId, tasks, cap, delivered, published>>

\* cleanupOldUpdates, its delete resolves
UploadCleanupDelete(s) ==
  /\ NoResponsePending
  /\ req[s].kind = "upload" /\ req[s].pc = "cleanupDelete"
  /\ catalog' = DeleteRows(catalog, req[s].idsToDelete)
  /\ req' = [req EXCEPT ![s] =
       [@ EXCEPT !.pc = "deleteFolders", !.touched = @ + 1, !.wrote = @ + 1]]
  /\ UNCHANGED <<env, mode, bucket, now, nextId, tasks, cap, delivered, published, lastAcked>>

\* storage.deleteFolder of one pruned update resolves (Promise.all: in any
\* order); after the last one the handler answers
UploadDeleteFolder(s, id) ==
  /\ NoResponsePending
  /\ req[s].kind = "upload" /\ req[s].pc = "deleteFolders"
  /\ id \in req[s].idsToDelete
  /\ LET r == [req[s] EXCEPT !.touched = @ + 1, !.wrote = @ + 1,
                              !.idsToDelete = @ \ {id}]
         c == UploadCohort(r)
     IN /\ bucket' = deleteFolder(bucket, c[1], c[2], c[3], id)
        /\ IF r.idsToDelete = {}
           THEN /\ req' = [req EXCEPT ![s] = Success(r)]
                /\ lastAcked' = [lastAcked EXCEPT ![c] = r.plan.updateMetadata.id]
           ELSE /\ req' = [req EXCEPT ![s] = r]
                /\ lastAcked' = lastAcked
  /\ UNCHANGED <<env, mode, catalog, now, nextId, tasks, cap, delivered, published>>


(* ---------------------------------------------------------------------- *)
(* Failing operations                                                      *)
(* ---------------------------------------------------------------------- *)
\* a catch block that sends the error text to the client
InternalErrorWithText(r) ==
  Answer(r, Response(500, JsonBody([error |-> "Internal server error"])))

\* the catch block of either handler: new Response(null, { status: 500 })
InternalError(r) == Answer(r, Response(500, EmptyBody))

\* getLatestUpdate rejects: the query fails, or JSON.parse(row.assetsJson)
\* throws
ManifestLookupFails(s) ==
  /\ NoResponsePending
  /\ req[s].kind = "manifest" /\ req[s].pc = "lookup"
  /\ req' = [req EXCEPT ![s] =
       [InternalError([@ EXCEPT !.touched = @ + 1])
          EXCEPT !.ackedAtEnd = AckedFor(req[s].h), !.failedAt = "lookup"]]
  /\ UNCHANGED <<env, mode, catalog, bucket, now, nextId, tasks, cap, delivered, published, lastAcked>>

\* storage.downloadFile rejects or the stored config does not parse: the
\* inner catch swallows it and the handler goes on with expoClient = {}
ManifestConfigFails(s) ==
  /\ NoResponsePending
  /\ req[s].kind = "manifest" /\ req[s].pc = "config"
  /\ LET r == [req[s] EXCEPT !.touched = @ + 1, !.failedAt = "config"]
     IN /\ req' = [req EXCEPT ![s] = Deliver(r, EmptyConfig)]
        /\ now' \in Later
        /\ tasks' = [tasks EXCEPT ![<<r.latestUpdate.id, now'>>] = @ + 1]
        /\ delivered' = [delivered EXCEPT ![r.latestUpdate.id] = @ + 1]
  /\ UNCHANGED <<env, mode, catalog, bucket, nextId, cap, published, lastAcked>>

\* the download-count write of a task registered with waitUntil rejects
TaskFails(id, at) ==
  /\ NoResponsePending
  /\ tasks[<<id, at>>] > 0
  /\ tasks' = [tasks EXCEPT ![<<id, at>>] = @ - 1]
  /\ UNCHANGED <<env, mode, catalog, bucket, now, nextId, req, cap, delivered, published, lastAcked>>

\* where an upload awaits the catalog or the store
UploadAwaits ==
  { "auth", "putBundle", "putAssets", "putConfig", "save",
    "cleanupSelect", "cleanupDelete", "deleteFolders" }

\* the operation an upload awaits rejects (getAppByApiKey, formData,
\* storage.uploadFile, saveUpdate, cleanupOldUpdates, storage.deleteFolder):
\* the exception reaches the handler's catch; what was written stays written
UploadFails(s) ==
  /\ NoResponsePending
  /\ req[s].kind = "upload" /\ req[s].pc \in UploadAwaits
  /\ req' = [req EXCEPT ![s] =
       [InternalError(@) EXCEPT !.reason = "error", !.failedAt = req[s].pc]]
  /\ UNCHANGED <<env, mode, catalog, bucket, now, nextId, tasks, cap, delivered, published, lastAcked>>

(* ---------------------------------------------------------------------- *)
(* Specifications                                                          *)
(* ---------------------------------------------------------------------- *)
\* the bindings of the model: retention unset, 0, 1 or 2; with and without
\* an IP allow-list
Envs ==
  { [MAX_UPDATES_TO_KEEP |-> <<>>, ALLOWED_UPLOAD_IPS |-> <<>>],
    [MAX_UPDATES_TO_KEEP |-> <<0>>, ALLOWED_UPLOAD_IPS |-> AllowList],
    [MAX_UPDATES_TO_KEEP |-> <<1>>, ALLOWED_UPLOAD_IPS |-> AllowList],
    [MAX_UPDATES_TO_KEEP |-> <<2>>, ALLOWED_UPLOAD_IPS |-> <<>>] }

InitWith(m, limits) ==
  /\ mode = m
  /\ cap = limits
  /\ delivered = [id \in UpdateIds |-> 0]
  /\ env \in Envs
  /\ catalog = {}
  /\ bucket = <<>>
  /\ now = 0
  /\ nextId = 0
  /\ req = [s \in Slots |-> IDLE]
  /\ tasks = [t \in UpdateIds \X (0..MaxClock) |-> 0]
  /\ published = {}
  /\ lastAcked = [c \in Cohorts |-> UNDEF]

Init ==
  InitWith("conc", [manifests |-> ConcManifests, uploads |-> ConcUploads])
InitSeq ==
  InitWith("seq", [manifests |-> SeqManifests, uploads |-> SeqUploads])

Next ==
  \/ \E s \in Slots : \E h \in ManifestInputs : ManifestStart(s, h)
  \/ \E s \in Slots : ManifestLookup(s)
  \/ \E s \in Slots : ManifestConfig(s)
  \/ \E id \in UpdateIds : \E at \in 0..MaxClock : RunTask(id, at)
  \/ \E s \in Slots : \E u \in UploadInputs : UploadStart(s, u)
  \/ \E s \in Slots : UploadAuth(s)
  \/ \E s \in Slots : UploadPutBundle(s)
  \/ \E s \in Slots : \E i \in 1..2 : UploadPutAsset(s, i)
  \/ \E s \in Slots : UploadPutConfig(s)
  \/ \E s \in Slots : UploadSave(s)
  \/ \E s \in Slots : UploadCleanupSelect(s)
  \/ \E s \in Slots : UploadCleanupDelete(s)
  \/ \E s \in Slots : \E id \in UpdateIds : UploadDeleteFolder(s, id)
  \/ \E s \in Slots : Collect(s)

InitFault ==
  InitWith("fault", [manifests |-> FaultManifests, uploads |-> FaultUploads])

\* the steps of Next, and the failures of the operations the handlers await
NextFault ==
  \/ Next
  \/ \E s \in Slots : ManifestLookupFails(s)
  \/ \E s \in Slots : ManifestConfigFails(s)
  \/ \E id \in UpdateIds : \E at \in 0..MaxClock : TaskFails(id, at)
  \/ \E s \in Slots : UploadFails(s)

InitParts ==
  InitWith("parts", [manifests |-> PartsManifests, uploads |-> PartsUploads])

InitRace ==
  InitWith("race", [manifests |-> RaceManifests, uploads |-> RaceUploads])

InitDl ==
  InitWith("dl", [manifests |-> DlManifests, uploads |-> DlUploads])

\* an update published before the service stopped keeping the configuration
\* in storage only: its row may carry expo_config_json, text that parses or
\* text that does not, and its folder may hold expoConfig.json, bytes that
\* parse or bytes that do not
SeedId == IdTable[Len(IdTable)]
SeedPlan == UpdatePlan("a1", BaseUpload.fields, BaseUpload.files, SeedId, 0)
SeedRows ==
  { saveUpdate("a1", [SeedPlan.updateMetadata EXCEPT !.expoConfigJson = c]) :
      c \in {NoField, JsonText("cfgdb"), Bytes("dbtext")} }
SeedBuckets ==
  LET b == Put(<<>>, SeedPlan.bundlePath, SeedPlan.bundleData)
  IN {b} \cup { Put(b, SeedPlan.configPath, d) :
                  d \in {JsonText("cfgr2"), Bytes("r2bytes")} }

InitCfg ==
  /\ mode = "cfg"
  /\ cap = [manifests |-> CfgManifests, uploads |-> CfgUploads]
  /\ delivered = [id \in UpdateIds |-> 0]
  /\ env \in Envs
  /\ catalog \in { {row} : row \in SeedRows }
  /\ bucket \in SeedBuckets
  /\ now = 0
  /\ nextId = 0
  /\ req = [s \in Slots |-> IDLE]
  /\ tasks = [t \in UpdateIds \X (0..MaxClock) |-> 0]
  /\ published = catalog
  /\ lastAcked = [c \in Cohorts |-> UNDEF]

\* the other platform of the base cohort holds an update published earlier
AndroidSeedPlan ==
  UpdatePlan("a1", UploadOf(AndroidCohort, BasePayload).fields,
             BasePayload.files, SeedId, 0)

InitPar ==
  /\ mode = "par"
  /\ cap = [manifests |-> ParManifests, uploads |-> ParUploads]
  /\ delivered = [id \in UpdateIds |-> 0]
  /\ env \in Envs
  /\ catalog = {saveUpdate("a1", AndroidSeedPlan.updateMetadata)}
  /\ bucket = Put(<<>>, AndroidSeedPlan.bundlePath, AndroidSeedPlan.bundleData)
  /\ now = 0
  /\ nextId = 0
  /\ req = [s \in Slots |-> IDLE]
  /\ tasks = [t \in UpdateIds \X (0..MaxClock) |-> 0]
  /\ published = catalog
  /\ lastAcked = [c \in Cohorts |-> UNDEF]

(* ---------------------------------------------------------------------- *)
(* R2Storage.deleteFolder, one bucket operation at a time                  *)
(* ---------------------------------------------------------------------- *)
\* the folder that is deleted and the names of the objects it may hold
DfFolder == <<"a1", "production", "1.0.0", "u1">>
DfNames ==
  << <<"bundle", "js">>, <<"icon", "png">>, <<"expoConfig", "json">>,
     <<"asset-1">>, <<"asset-2">> >>
DfInside == { DfFolder \o <<DfNames[i]>> : i \in 1..MaxObjects }
\* objects of another update and of another channel
DfOutside ==
  { <<"a1", "production", "1.0.0", "u2", <<"bundle", "js">> >>,
    <<"a1", "staging", "1.0.0", "u1", <<"bundle", "js">> >> }

\* a call deleteFolder(folderPath) about to list
DfCall(folder, limit, bkt) ==
  [ kind |-> "deleteFolder", pc |-> "list", folder |-> folder, limit |-> limit,
    pending |-> {}, truncated |-> FALSE, calls |-> 1, bucketAtCall |-> bkt ]

\* the results bucket.list({ prefix }) may have: up to limit of the objects
\* under the prefix, at least one when there is any, and truncated when
\* objects are left out
DfListings(bkt, folder, limit) ==
  LET matching == FolderKeys(bkt, folder[1], folder[2], folder[3], folder[4])
  IN { [objects |-> page, truncated |-> page # matching] :
         page \in { q \in SUBSET matching :
                      /\ Cardinality(q) <= limit
                      /\ matching # {} => q # {} } }

\* await this.bucket.list({ prefix }) resolves
DfList ==
  /\ req[1].kind = "deleteFolder" /\ req[1].pc = "list"
  /\ \E listed \in DfListings(bucket, req[1].folder, req[1].limit) :
       req' = [req EXCEPT ![1] = [@ EXCEPT !.pc = "delete",
                                           !.pending = listed.objects,
                                           !.truncated = listed.truncated]]
  /\ UNCHANGED <<env, mode, catalog, bucket, now, nextId, tasks, cap, delivered, published, lastAcked>>

\* one this.bucket.delete(obj.key) of the Promise.all resolves
DfDelete(k) ==
  /\ req[1].kind = "deleteFolder" /\ req[1].pc = "delete"
  /\ k \in req[1].pending
  /\ bucket' = [q \in DOMAIN bucket \ {k} |-> bucket[q]]
  /\ req' = [req EXCEPT ![1] = [@ EXCEPT !.pending = @ \ {k}]]
  /\ UNCHANGED <<env, mode, catalog, now, nextId, tasks, cap, delivered, published, lastAcked>>

\* a function that ignores listed.truncated
DfRecursesNever(truncated) == FALSE

\* if (listed.truncated)
DfRecurses(truncated) == truncated

\* the Promise.all has resolved: the function calls itself when the listing
\* was truncated and returns otherwise
DfContinue ==
  /\ req[1].kind = "deleteFolder" /\ req[1].pc = "delete"
  /\ req[1].pending = {}
  /\ req' = [req EXCEPT ![1] =
       IF DfRecurses(@.truncated)
       THEN [@ EXCEPT !.pc = "list", !.calls = @ + 1]
       ELSE [@ EXCEPT !.pc = "returned"]]
  /\ UNCHANGED <<env, mode, catalog, bucket, now, nextId, tasks, cap, delivered, published, lastAcked>>

InitFolder ==
  /\ mode = "folder"
  /\ cap = [manifests |-> 0, uploads |-> 0]
  /\ delivered = [id \in UpdateIds |-> 0]
  /\ env \in Envs
  /\ catalog = {}
  /\ bucket \in { [k \in K |-> Bytes("b1")] : K \in SUBSET (DfInside \cup DfOutside) }
  /\ now = 0
  /\ nextId = 0
  /\ \E limit \in 1..MaxPage :
       req = [s \in Slots |-> IF s = 1 THEN DfCall(DfFolder, limit, bucket) ELSE IDLE]
  /\ tasks = [t \in UpdateIds \X (0..MaxClock) |-> 0]
  /\ published = {}
  /\ lastAcked = [c \in Cohorts |-> UNDEF]

NextFolder ==
  \/ DfList
  \/ \E k \in DfInside \cup DfOutside : DfDelete(k)
  \/ DfContinue

\* requests handled in parallel
Spec == Init /\ [][Next]_vars

\* requests handled one after another
SpecSeq == InitSeq /\ [][Next]_vars

\* several downloads of the same update handled in parallel
SpecDl == InitDl /\ [][Next]_vars

\* requests handled one after another, with failing operations
SpecFault == InitFault /\ [][NextFault]_vars

\* requests handled in parallel, with failing operations
SpecRace == InitRace /\ [][NextFault]_vars

\* requests handled one after another, the uploads with unusual file parts
SpecParts == InitParts /\ [][Next]_vars

\* requests handled one after another, with failing operations, on a catalog
\* that already holds an update
SpecCfg == InitCfg /\ [][NextFault]_vars

\* requests handled in parallel, next to a cohort that already holds an update
SpecPar == InitPar /\ [][Next]_vars

\* one call of deleteFolder with nothing else writing to the bucket; every
\* awaited bucket operation resolves in the end
SpecFolder == InitFolder /\ [][NextFolder]_vars /\ WF_vars(NextFolder)


(* ---------------------------------------------------------------------- *)
(* Properties                                                              *)
(* ---------------------------------------------------------------------- *)
\* the slots whose manifest / upload request has just been answered
AnsweredManifests == { s \in Slots : req[s].kind = "manifest" /\ req[s].pc = "done" }
AnsweredUploads == { s \in Slots : req[s].kind = "upload" /\ req[s].pc = "done" }

\* the JSON payloads of the parts of a response that carry the given name
PartsNamed(resp, name) ==
  IF resp.body.type = "multipart"
  THEN { resp.body.parts[i].json :
           i \in { j \in 1..Len(resp.body.parts) : resp.body.parts[j].name = name } }
  ELSE {}

\* the rows of the requested cohort in the catalog as the request read it
CohortAtRead(r) ==
  { x \in r.catalogAtRead : CohortOf(x) = <<r.h.appId, r.h.channel,
                                            r.h.runtimeVersion, r.h.platform>> }

\* C1: a delivered manifest describes a row of exactly the requested cohort
\* that had the greatest created_at among the cohort's rows when the catalog
\* was read.
C1_DeliversLatestOfCohort ==
  \A s \in AnsweredManifests :
    \A m \in PartsNamed(req[s].resp, "manifest") :
      \E x \in CohortAtRead(req[s]) :
        /\ x.id = m.id
        /\ m.createdAt = x.createdAt
        /\ m.runtimeVersion = x.runtimeVersion
        /\ m.launchAsset.hash = x.launchAssetHash
        /\ m.launchAsset.url = x.launchAssetUrl
        /\ \A y \in CohortAtRead(req[s]) : y.createdAt <= x.createdAt

\* a manifest was delivered while the catalog also held an update of
\* another cohort
C1_Witness ==
  \E s \in AnsweredManifests :
    /\ PartsNamed(req[s].resp, "manifest") # {}
    /\ req[s].catalogAtRead \ CohortAtRead(req[s]) # {}


\* the row an update id was published with
PublishedRow(id) == CHOOSE x \in published : x.id = id

\* the updates of a cohort were all published with different timestamps
DistinctTimestamps(c) ==
  \A x, y \in published :
    (CohortOf(x) = c /\ CohortOf(y) = c /\ x.id # y.id) => x.createdAt # y.createdAt

\* C2: a manifest check without current-update-id that starts after an
\* upload to its cohort was answered 200, and is answered before any further
\* upload to that cohort is answered 200, returns a manifest with the launch
\* asset hash and URL of that upload's update, however the requests
\* interleave (stated for cohorts whose updates carry pairwise different
\* created_at, where "latest" is unambiguous, and for checks answered while
\* no upload is in progress).
C2_ServesJustPublished ==
  \A s \in AnsweredManifests :
    LET r == req[s]
    IN ( /\ r.h.currentUpdateId = UNDEF
         /\ r.ackedAtStart # UNDEF
         /\ r.ackedAtEnd = r.ackedAtStart
         /\ \A t \in Slots : req[t].kind # "upload"
         /\ DistinctTimestamps(<<r.h.appId, r.h.channel, r.h.runtimeVersion,
                                 r.h.platform>>) )
       => \E m \in PartsNamed(r.resp, "manifest") :
            /\ m.launchAsset.hash = PublishedRow(r.ackedAtStart).launchAssetHash
            /\ m.launchAsset.url = PublishedRow(r.ackedAtStart).launchAssetUrl


\* the four required headers are there, non-empty, the platform ios or android
WellFormedHeaders(h) ==
  /\ h.appId \notin {UNDEF, ""}
  /\ h.runtimeVersion \notin {UNDEF, ""}
  /\ h.channel \notin {UNDEF, ""}
  /\ h.platform = "ios" \/ h.platform = "android"

\* the ids of the cohort's latest updates in the catalog as the request read it
LatestIdsAtRead(r) ==
  { x.id : x \in { y \in CohortAtRead(r) :
                     \A z \in CohortAtRead(r) : z.createdAt <= y.createdAt } }

\* the client names the cohort's latest update as its current one
ClientIsCurrent(r) == LatestIdsAtRead(r) = {r.h.currentUpdateId}

\* a well-formed request that read the catalog and found no update for its
\* cohort, or found the client current
NothingNew(r) ==
  /\ WellFormedHeaders(r.h)
  /\ r.touched > 0
  /\ CohortAtRead(r) = {} \/ ClientIsCurrent(r)

ProtocolLegacy(h) == h.protocolVersion \in {UNDEF, "0"}
ProtocolAtLeast1(h) == h.protocolVersion \in {"1", "2"}

\* C3: when current-update-id names the cohort's latest update the answer is
\* the no-update response of the negotiated protocol version (a directive
\* from version 1 on, an empty body before), never a manifest, and no
\* download is counted.
C3_CurrentShortCircuit ==
  \A s \in AnsweredManifests :
    (WellFormedHeaders(req[s].h) /\ ClientIsCurrent(req[s])) =>
      /\ PartsNamed(req[s].resp, "manifest") = {}
      /\ req[s].scheduled = 0
      /\ ProtocolAtLeast1(req[s].h) =>
           PartsNamed(req[s].resp, "directive") = {[type |-> "noUpdateAvailable"]}
      /\ ProtocolLegacy(req[s].h) => req[s].resp.body.type = "empty"

\* a current client was answered with the directive although its cohort has
\* an update
C3_Witness ==
  \E s \in AnsweredManifests :
    /\ ClientIsCurrent(req[s])
    /\ req[s].h.protocolVersion = "1"
    /\ PartsNamed(req[s].resp, "directive") # {}

\* C4: with protocol version absent or 0, a well-formed request that finds
\* nothing new is answered 204 with an empty body (not the 404 of a
\* header-validation failure).
C4_LegacyNoUpdateIs204 ==
  \A s \in AnsweredManifests :
    (NothingNew(req[s]) /\ ProtocolLegacy(req[s].h)) =>
      /\ req[s].resp.status = 204
      /\ req[s].resp.body.type = "empty"

\* C5: with protocol version >= 1, a well-formed request that finds nothing
\* new is answered 200 with a multipart body of exactly one part, named
\* directive, whose payload is {"type":"noUpdateAvailable"}.
C5_DirectiveFromProtocol1 ==
  \A s \in AnsweredManifests :
    (NothingNew(req[s]) /\ ProtocolAtLeast1(req[s].h)) =>
      /\ req[s].resp.status = 200
      /\ req[s].resp.body.type = "multipart"
      /\ Len(req[s].resp.body.parts) = 1
      /\ req[s].resp.body.parts[1].name = "directive"
      /\ req[s].resp.body.parts[1].json = [type |-> "noUpdateAvailable"]

\* a protocol-1 request for a cohort without updates was answered
C5_Witness ==
  \E s \in AnsweredManifests :
    /\ NothingNew(req[s])
    /\ CohortAtRead(req[s]) = {}
    /\ req[s].catalogAtRead # {}
    /\ req[s].h.protocolVersion = "1"
    /\ req[s].resp.status = 200

\* C6: a manifest request with a required header missing or empty, or with a
\* platform other than ios and android, is answered 404 with an empty body
\* before the catalog or the store is touched.
C6_DefectiveHeaders404 ==
  \A s \in Slots :
    (req[s].kind = "manifest" /\ ~WellFormedHeaders(req[s].h)) =>
      /\ req[s].pc = "done"
      /\ req[s].resp.status = 404
      /\ req[s].resp.body.type = "empty"
      /\ req[s].touched = 0
      /\ req[s].scheduled = 0

\* a request naming the platform web was answered while the catalog held an
\* update
C6_Witness ==
  \E s \in AnsweredManifests :
    /\ req[s].h.platform = "web"
    /\ req[s].resp.status = 404
    /\ catalog # {}


\* the ids of the rows of a catalog
IdsOf(cat) == { x.id : x \in cat }

\* the rows of cohort c in a catalog
RowsOfCohort(cat, c) == { x \in cat : CohortOf(x) = c }

\* no request is being handled
Quiescent == \A s \in Slots : req[s].kind = "idle" \/ req[s].pc = "done"

Min(a, b) == IF a < b THEN a ELSE b

\* the retention setting as a number, 0 when unset
KeepCount ==
  IF env.MAX_UPDATES_TO_KEEP = <<>> THEN 0 ELSE env.MAX_UPDATES_TO_KEEP[1]

\* C7: with keepCount = N >= 1 and M updates published one after another to
\* one cohort, once the M-th publish has returned the catalog holds the
\* min(N, M) most recent of them (by created_at) and the M - N oldest are gone;
\* the retained ones remain queryable.
C7_KeepsTheNMostRecent ==
  (Quiescent /\ KeepCount >= 1) =>
    \A c \in Cohorts :
      LET pub == RowsOfCohort(published, c)
          kept == { x \in pub : x.id \in IdsOf(catalog) }
      IN /\ IdsOf(RowsOfCohort(catalog, c)) = IdsOf(kept)
         /\ Cardinality(kept) = Min(KeepCount, Cardinality(pub))
         /\ \A d \in pub \ kept : \A k \in kept : d.createdAt <= k.createdAt
         /\ pub # {} =>
              \A x \in getLatestUpdate(catalog, c[1], c[2], c[3], c[4]) :
                x.id \in IdsOf(kept)

\* N = 1, two updates published to a cohort at different times, the second
\* publish has returned and the first update is gone
C7_Witness ==
  /\ Quiescent /\ KeepCount = 1
  /\ \E c \in Cohorts :
       /\ Cardinality(RowsOfCohort(published, c)) = 2
       /\ Cardinality(RowsOfCohort(catalog, c)) = 1
       /\ \E x \in RowsOfCohort(published, c) :
            \E y \in RowsOfCohort(catalog, c) : x.createdAt < y.createdAt
       /\ \E s \in AnsweredUploads : req[s].resp.status = 200

\* an upload is in its retention sweep
Sweeping(r) ==
  r.kind = "upload" /\ r.pc \in {"cleanupSelect", "cleanupDelete", "deleteFolders"}

\* C8: with MAX_UPDATES_TO_KEEP 0 or unset no step removes a catalog row or a
\* storage object and no upload enters the retention sweep, so every
\* published update of every cohort remains.
C8_KeepAllDeletesNothing ==
  [][ KeepCount = 0 =>
        /\ IdsOf(catalog) \subseteq IdsOf(catalog')
        /\ DOMAIN bucket \subseteq DOMAIN bucket'
        /\ \A s \in Slots : ~Sweeping(req'[s])
        /\ IdsOf(published') \subseteq IdsOf(catalog') ]_vars

\* retention off, a second upload to a cohort has been answered 200 and both
\* updates are in the catalog
C8_Witness ==
  /\ KeepCount = 0
  /\ \E s \in AnsweredUploads :
       /\ req[s].resp.status = 200
       /\ Cardinality(RowsOfCohort(catalog, UploadCohort(req[s]))) = 2
       /\ Cardinality(DOMAIN bucket) >= 2

\* what makes an upload request unacceptable: the client address is off the
\* allow-list, the API key is absent or matches no app, a required field is
\* missing or invalid, or no file part is the bundle
UploadDefect(u) ==
  \/ env.ALLOWED_UPLOAD_IPS # <<>> /\ u.ip \in BlockedIPs
  \/ \A a \in apps : a.apiKey # u.apiKey
  \/ u.fields.channel \in {UNDEF, ""}
  \/ u.fields.runtimeVersion \in {UNDEF, ""}
  \/ u.fields.platform \notin {"ios", "android"}
  \/ \A i \in 1..Len(u.files) :
       /\ u.files[i].fieldName # "bundle"
       /\ ~( /\ Len(u.files[i].filename) > 1
             /\ u.files[i].filename[Len(u.files[i].filename)] = "bundle" )

PendingTasks(id) == SumOver([at \in 0..MaxClock |-> tasks[<<id, at>>]], 0..MaxClock)

\* C11: for an update that is in the catalog, download_count plus the
\* increments still to run equals the number of manifests delivered for it, so
\* once every background task has completed the two are equal; a request
\* registers one increment exactly when it delivers a manifest (none for a
\* no-update or a 404 response), also when downloads run in parallel.
C11_CountsEveryDelivery ==
  /\ \A x \in catalog :
       x.downloadCount + PendingTasks(x.id) = delivered[x.id]
  /\ \A s \in AnsweredManifests :
       req[s].scheduled =
         IF PartsNamed(req[s].resp, "manifest") # {} THEN 1 ELSE 0

\* two manifests were delivered for one update, both increments have run
C11_Witness ==
  \E x \in catalog :
    /\ delivered[x.id] = 2
    /\ x.downloadCount = 2
    /\ \A id \in UpdateIds : PendingTasks(id) = 0


\* the keys of the background tasks
TaskKeys == UpdateIds \X (0..MaxClock)

\* C12: the step that registers the download-count write is the step that
\* answers 200 with the manifest of that update, so the response does not wait
\* for the write; and a step in which the write runs or fails changes no
\* request, so its failure never changes what the client receives.
C12_ResponseDoesNotWaitForCount ==
  [][ \A k \in TaskKeys :
        /\ tasks'[k] > tasks[k] =>
             \E s \in Slots :
               /\ req[s].pc # "done" /\ req'[s].pc = "done"
               /\ req'[s].resp.status = 200
               /\ \E m \in PartsNamed(req'[s].resp, "manifest") : m.id = k[1]
        /\ tasks'[k] < tasks[k] => req' = req /\ delivered' = delivered ]_vars

\* a manifest was delivered for an update and its download-count write failed
C12_Witness ==
  \E x \in catalog :
    /\ delivered[x.id] = 1
    /\ PendingTasks(x.id) = 0
    /\ x.downloadCount = 0


\* a row without its two download attributes
Frozen(x) == [x EXCEPT !.downloadCount = 0, !.lastDownloadedAt = -1]

\* C13: in every step a row that stays in the catalog keeps every attribute
\* other than download_count and last_downloaded_at, and a row leaves the
\* catalog only in the delete of a retention sweep that selected it.
C13_RowsImmutable ==
  [][ /\ \A x \in catalog : \A y \in catalog' :
           y.id = x.id => Frozen(y) = Frozen(x)
      /\ \A x \in catalog :
           x.id \notin IdsOf(catalog') =>
             \E s \in Slots :
               /\ req[s].kind = "upload" /\ req[s].pc = "cleanupDelete"
               /\ x.id \in req[s].idsToDelete
               /\ CohortOf(x) = UploadCohort(req[s])
      /\ \A y \in catalog' : \A z \in catalog' : y.id = z.id => y = z ]_vars

\* one update has been downloaded and counted, another has been pruned
C13_Witness ==
  /\ \E x \in catalog : x.downloadCount = 1 /\ x.lastDownloadedAt >= 0
  /\ \E x \in published : x.id \notin IdsOf(catalog)


\* the response 200 {success: true}
IsSuccess(resp) ==
  resp.status = 200 /\ resp.body = [type |-> "json", json |-> [success |-> TRUE]]

\* the catalog holds the row an upload request created
RowCommitted(r) ==
  r.plan # <<>> /\ r.plan.updateMetadata.id \in IdsOf(catalog)

\* C14: an answered upload whose response is not 200 {success: true} has left
\* no row of its own in the catalog, and one answered 200 has written its
\* bundle, each of its assets and its row.
C14_AllOrNothing ==
  \A s \in AnsweredUploads :
    /\ ~IsSuccess(req[s].resp) => ~RowCommitted(req[s])
    /\ IsSuccess(req[s].resp) =>
         /\ req[s].plan.updateMetadata.id \in IdsOf(published)
         /\ req[s].wrote >= 2 + Len(req[s].plan.assetPaths)

\* C15: when storage.deleteFolder fails during the retention sweep the upload
\* is still answered 200 {success: true}, its update stays committed and the
\* pruned rows stay deleted.
C15_DeleteFailureSwallowed ==
  \A s \in AnsweredUploads :
    req[s].failedAt = "deleteFolders" =>
      /\ IsSuccess(req[s].resp)
      /\ RowCommitted(req[s])
      /\ \A x \in published :
           (CohortOf(x) = UploadCohort(req[s]) /\ x.id \notin IdsOf(catalog)) =>
             x.id # req[s].plan.updateMetadata.id

\* the bare 500
Bare500 == [status |-> 500, body |-> [type |-> "empty"], headers |-> <<>>]

OffTheAllowList(u) == env.ALLOWED_UPLOAD_IPS # <<>> /\ u.ip \in BlockedIPs

\* C17: with an allow-list configured, an upload from an address that is
\* absent or off the list is never seen waiting for anything: it is answered
\* 404 in the step that receives it, no app has been looked up, the form has
\* not been turned into an update, the catalog has not been queried and
\* nothing has been written.
C17_GateBeforeLookup ==
  \A s \in Slots :
    (req[s].kind = "upload" /\ OffTheAllowList(req[s].u)) =>
      /\ req[s].pc = "done"
      /\ req[s].resp.status = 404
      /\ req[s].touched = 0
      /\ req[s].wrote = 0
      /\ req[s].appId = UNDEF
      /\ req[s].plan = <<>>

\* an upload with a valid key and no cf-connecting-ip was turned away while
\* the catalog held an update
C17_Witness ==
  \E s \in AnsweredUploads :
    /\ env.ALLOWED_UPLOAD_IPS # <<>>
    /\ req[s].u.ip = <<>>
    /\ req[s].u.apiKey = "k1"
    /\ req[s].resp.status = 404
    /\ catalog # {}


\* the protocol-version header is absent or is not the decimal form of an
\* integer
ProtocolAbsentOrUnparsable(h) == h.protocolVersion \notin {"0", "1", "2"}

\* C18: a well-formed request whose protocol version is absent or unparsable
\* is handled as version 0: when there is nothing new the answer has an empty
\* body and no directive, and a delivered manifest echoes protocol version 0;
\* a directive is only ever sent for a version >= 1.
C18_UnparsableIsVersion0 ==
  \A s \in AnsweredManifests :
    LET r == req[s]
    IN /\ (NothingNew(r) /\ ProtocolAbsentOrUnparsable(r.h)) =>
            /\ r.resp.body.type = "empty"
            /\ PartsNamed(r.resp, "directive") = {}
       /\ ( /\ ProtocolAbsentOrUnparsable(r.h)
            /\ PartsNamed(r.resp, "manifest") # {} ) =>
              r.resp.headers.protocolVersion = "0"
       /\ PartsNamed(r.resp, "directive") # {} => ProtocolAtLeast1(r.h)


\* the bytes stored for the launch asset of a row, when they are still there
HasBundleBytes(x) == x.launchAssetUrl[2] \in DOMAIN bucket
BundleBytes(x) == bucket[x.launchAssetUrl[2]]

\* C19: two updates published to one cohort have distinct ids, and when their
\* stored bundles are byte-identical their launch-asset keys and hashes are
\* equal, whatever the ids, the file names and the times of upload.
C19_SameBytesSameKey ==
  \A x \in published : \A y \in published :
    (x # y /\ CohortOf(x) = CohortOf(y)) =>
      /\ x.id # y.id
      /\ ( /\ HasBundleBytes(x) /\ HasBundleBytes(y)
           /\ BundleBytes(x) = BundleBytes(y) ) =>
             /\ x.launchAssetKey = y.launchAssetKey
             /\ x.launchAssetHash = y.launchAssetHash

\* the same bytes were published twice to a cohort, under two file names and
\* at two times
C19_Witness ==
  \E x \in catalog : \E y \in catalog :
    /\ x.id # y.id /\ CohortOf(x) = CohortOf(y)
    /\ HasBundleBytes(x) /\ HasBundleBytes(y)
    /\ BundleBytes(x) = BundleBytes(y)
    /\ x.launchAssetFileExtension # y.launchAssetFileExtension
    /\ x.createdAt # y.createdAt
    /\ x.launchAssetKey = y.launchAssetKey


\* the x-ota-api-key header is absent or matches no app
KeyMissingOrUnknown(u) == \A a \in apps : a.apiKey # u.apiKey

\* channel, runtime version or bundle file is lacking, or the platform is
\* invalid
FieldOrBundleDefect(u) ==
  \/ u.fields.channel \in {UNDEF, ""}
  \/ u.fields.runtimeVersion \in {UNDEF, ""}
  \/ u.fields.platform \notin {"ios", "android"}
  \/ \A i \in 1..Len(u.files) :
       /\ u.files[i].fieldName # "bundle"
       /\ ~( /\ Len(u.files[i].filename) > 1
             /\ u.files[i].filename[Len(u.files[i].filename)] = "bundle" )

TextBody(t) == [type |-> "text", text |-> t]

ExpectedExpoClient(r) ==
  LET lu == r.latestUpdate
      path == <<r.h.appId, r.h.channel, r.h.runtimeVersion, lu.id,
                <<"expoConfig", "json">> >>
  IN IF lu.expoConfigJson.valid
     THEN lu.expoConfigJson.value
     ELSE IF r.failedAt # "config" /\ path \in DOMAIN bucket /\ bucket[path].valid
     THEN bucket[path].value
     ELSE "{}"

\* C21: a manifest request that found an update other than the client's
\* current one is answered 200 with a manifest whose extra.expoClient is the
\* parsed expo_config_json of the row when that text parses, otherwise the
\* parsed expoConfig.json of the update's folder when that object exists,
\* could be read and parses, otherwise the empty object; a text that does not
\* parse, a failing read and a missing object never make the response an
\* error.
C21_ExpoClientChain ==
  \A s \in AnsweredManifests :
    LET r == req[s]
    IN (r.latestUpdate # NOROW /\ r.h.currentUpdateId # r.latestUpdate.id) =>
         /\ r.resp.status = 200
         /\ PartsNamed(r.resp, "manifest") # {}
         /\ \A m \in PartsNamed(r.resp, "manifest") :
              m.extra.expoClient = ExpectedExpoClient(r)

\* a manifest was delivered for a row whose expo_config_json does not parse,
\* with the configuration read from storage
C21_Witness ==
  \E s \in AnsweredManifests :
    /\ req[s].latestUpdate # NOROW
    /\ req[s].latestUpdate.expoConfigJson # NoField
    /\ ~req[s].latestUpdate.expoConfigJson.valid
    /\ \E m \in PartsNamed(req[s].resp, "manifest") : m.extra.expoClient = "cfgr2"

\* the cohort an upload request publishes to: the app its API key names and
\* the channel, runtime version and platform of its form
TargetCohort(r) ==
  <<getAppByApiKey(r.u.apiKey).id, r.u.fields.channel,
    r.u.fields.runtimeVersion, r.u.fields.platform>>

\* C22: in every step of an upload request, a row that enters the catalog is
\* the one row of that upload, in the cohort named by its API key and form
\* fields; a row that leaves the catalog is of that cohort; an object that is
\* written lies in the folder of that upload's update and an object that is
\* removed lies in the folder of an update published to that cohort; and an
\* upload answered 200 has published exactly one row. Rows and objects of
\* every other cohort are left as they were.
C22_UploadTouchesOwnCohortOnly ==
  [][ \A s \in Slots :
        (req[s].kind = "upload" /\ req'[s] # req[s]) =>
          LET r == req[s]
              c == TargetCohort(r)
              own == r.plan.updateMetadata.id
          IN /\ Cardinality(catalog' \ catalog) <= 1
             /\ \A x \in catalog' \ catalog : x.id = own /\ CohortOf(x) = c
             /\ \A x \in catalog \ catalog' : CohortOf(x) = c
             /\ \A k \in DOMAIN bucket' :
                  (k \notin DOMAIN bucket \/ bucket'[k] # bucket[k]) =>
                    /\ k[4] = own
                    /\ <<k[1], k[2], k[3]>> = <<c[1], c[2], c[3]>>
             /\ \A k \in DOMAIN bucket \ DOMAIN bucket' :
                  \E x \in published : x.id = k[4] /\ CohortOf(x) = c
             /\ (req'[s].kind = "upload" /\ IsSuccess(req'[s].resp)) =>
                  /\ Cardinality({ x \in published' : x.id = own }) = 1
                  /\ \A x \in published' : x.id = own => CohortOf(x) = c
             /\ \A x \in catalog : CohortOf(x) # c => x \in catalog' ]_vars

\* an upload to the base cohort was answered 200 after its sweep deleted a row
\* and a folder of that cohort, while the update of the other platform is
\* still in the catalog and in storage
C22_Witness ==
  /\ \E s \in AnsweredUploads :
       /\ IsSuccess(req[s].resp)
       /\ TargetCohort(req[s]) = BaseCohort
  /\ \E x \in published :
       /\ CohortOf(x) = BaseCohort
       /\ x.id \notin IdsOf(catalog)
       /\ \A k \in DOMAIN bucket : k[4] # x.id
  /\ \E x \in catalog :
       /\ CohortOf(x) = AndroidCohort
       /\ AndroidSeedPlan.bundlePath \in DOMAIN bucket

\* C23: a call of deleteFolder returns, whatever the bucket holds and
\* whatever the size of a page of the listing; and when it has returned no
\* object under the folder is left, while every object outside the folder is
\* in the bucket with the bytes it had.
C23_DeleteFolderTerminatesClean ==
  /\ <>(req[1].pc = "returned")
  /\ [](req[1].pc = "returned" =>
          LET f == req[1].folder
              before == req[1].bucketAtCall
          IN /\ \A k \in DOMAIN bucket : SubSeq(k, 1, 4) # f
             /\ \A k \in DOMAIN before :
                  SubSeq(k, 1, 4) # f => k \in DOMAIN bucket /\ bucket[k] = before[k])

\* a call returned after a truncated listing made it call itself, on a bucket
\* that held more objects under the folder than a page and objects outside
C23_Witness ==
  /\ req[1].kind = "deleteFolder" /\ req[1].pc = "returned"
  /\ req[1].calls >= 2
  /\ Cardinality({ k \in DOMAIN req[1].bucketAtCall : SubSeq(k, 1, 4) = DfFolder })
       > req[1].limit
  /\ \E k \in DOMAIN bucket : SubSeq(k, 1, 4) # DfFolder

\* the file parts of an upload other than part b that carry an asset field
\* name, in the order received
RemainingAssetParts(files, b) ==
  SelectSeq([i \in 1..Len(files) |-> i],
            LAMBDA i : /\ i # b
                       /\ \/ files[i].fieldName = "assets"
                          \/ files[i].fieldName \in {"asset-0", "asset-1"})

\* C24: an upload answered 200 took one of its bundle parts (field name
\* bundle, or file name ending in .bundle) for the launch asset, and the
\* assets it recorded are the other parts with the field name assets or
\* asset-..., one entry for each, in the order received: the bundle part is
\* not among them.
C24_BundleIsNotAnAsset ==
  \A s \in AnsweredUploads :
    IsSuccess(req[s].resp) =>
      LET files == req[s].u.files
          recorded == req[s].plan.updateMetadata
      IN \E b \in 1..Len(files) :
           /\ \/ files[b].fieldName = "bundle"
              \/ EndsWithBundle(files[b].filename)
           /\ recorded.launchAsset.key = computeFileHash(files[b].data, "hex")
           /\ LET rest == RemainingAssetParts(files, b)
              IN /\ Len(recorded.assets) = Len(rest)
                 /\ \A j \in 1..Len(rest) :
                      recorded.assets[j].key =
                        computeFileHash(files[rest[j]].data, "hex")

\* the object a recorded URL points to holds bytes with the recorded key
HoldsBytesOf(url, key) ==
  /\ url[2] \in DOMAIN bucket
  /\ computeFileHash(bucket[url[2]], "hex") = key

\* C30: for every row of the catalog the object at the launch asset's URL
\* holds the bytes whose hash the row records, and the object at the URL of
\* each recorded asset holds the bytes of that asset, whatever the file names
\* of the uploaded parts.
C30_ObjectsHoldRecordedBytes ==
  \A x \in catalog :
    /\ HoldsBytesOf(x.launchAssetUrl, x.launchAssetKey)
    /\ \A j \in 1..Len(x.assetsJson.value) :
         HoldsBytesOf(x.assetsJson.value[j].url, x.assetsJson.value[j].key)

\* the paths of the objects a row names: its launch asset and its assets
ObjectsNamedBy(x) ==
  {x.launchAssetUrl[2]}
  \cup { x.assetsJson.value[j].url[2] : j \in 1..Len(x.assetsJson.value) }

\* C25: in every state every object named by a row of the catalog, the launch
\* asset and each asset, is in the bucket, whatever the interleaving of
\* uploads, sweeps and manifest requests and whichever operations fail.
C25_RowsHaveTheirObjects ==
  \A x \in catalog : ObjectsNamedBy(x) \subseteq DOMAIN bucket

\* a sweep deleted the row and the folder of an update, the sweep of another
\* upload failed on the folder it was to delete, and a row with an asset is
\* in the catalog
C25_Witness ==
  /\ \E s \in AnsweredUploads : req[s].failedAt = "deleteFolders"
  /\ \E x \in published :
       /\ x.id \notin IdsOf(catalog)
       /\ ObjectsNamedBy(x) \cap DOMAIN bucket = {}
  /\ \E x \in catalog : Len(x.assetsJson.value) > 0

\* C26 as claimed: the update a manifest response describes is, when the
\* response is sent, in the catalog with its launch asset and assets in
\* storage.
C26_NeverDescribesRemoved ==
  \A s \in AnsweredManifests :
    \A m \in PartsNamed(req[s].resp, "manifest") :
      \E x \in catalog : x.id = m.id /\ ObjectsNamedBy(x) \subseteq DOMAIN bucket

\* C26: the update a manifest response describes is the one the handler read
\* from the catalog, and when the handler read it the update was in the
\* catalog with its launch asset and assets in storage; requests take no
\* locks, so the sweep of an upload handled in parallel may remove it before
\* the response is sent.
C26_DescribesUpdateAsRead ==
  [][ \A s \in Slots :
        /\ (req[s].kind = "manifest" /\ req[s].pc = "lookup"
              /\ req'[s].latestUpdate # NOROW) =>
             \E x \in catalog :
               /\ x.id = req'[s].latestUpdate.id
               /\ ObjectsNamedBy(x) \subseteq DOMAIN bucket
        /\ (req[s].kind = "manifest" /\ req[s].pc # "lookup"
              /\ req'[s].kind = "manifest") =>
             req'[s].latestUpdate = req[s].latestUpdate
        /\ (req'[s].kind = "manifest" /\ req'[s].pc = "done") =>
             \A m \in PartsNamed(req'[s].resp, "manifest") :
               /\ req'[s].latestUpdate # NOROW
               /\ m.id = req'[s].latestUpdate.id
               /\ m.launchAsset = req'[s].latestUpdate.launchAsset
               /\ m.assets = req'[s].latestUpdate.assets ]_vars

\* a manifest response describes an update that the sweep of an upload
\* handled in parallel removed, row and folder, after the handler read it
C26_Witness ==
  \E s \in AnsweredManifests :
    \E m \in PartsNamed(req[s].resp, "manifest") :
      /\ m.id \notin IdsOf(catalog)
      /\ \A k \in DOMAIN bucket : k[4] # m.id

\* C27: with MAX_UPDATES_TO_KEEP of 1 or more, an upload answered 200 has the
\* row of its own update in the catalog when it is answered, whatever other
\* uploads to its cohort are handled in parallel (stated for cohorts whose
\* updates carry pairwise different created_at, where the order of the
\* sweep's query is fixed).
C27_SweepSparesOwnUpdate ==
  \A s \in AnsweredUploads :
    ( /\ IsSuccess(req[s].resp)
      /\ maxUpdatesToKeep(env.MAX_UPDATES_TO_KEEP) >= 1
      /\ DistinctTimestamps(TargetCohort(req[s])) ) =>
      req[s].plan.updateMetadata.id \in IdsOf(catalog)

\* no upload is between its start and its response
NoUploadInProgress ==
  \A s \in Slots : req[s].kind = "upload" => req[s].pc = "done"

\* C28: starting from an empty catalog, with MAX_UPDATES_TO_KEEP = N of 1 or
\* more and no failing operation, whenever no upload is in progress every
\* cohort holds at most N rows, however the steps of uploads handled in
\* parallel interleave.
C28_AtMostNRowsWhenIdle ==
  (NoUploadInProgress /\ KeepCount >= 1) =>
    \A c \in Cohorts : Cardinality(RowsOfCohort(catalog, c)) <= KeepCount

\* two uploads to the base cohort overlapped, with different created_at; the
\* one answered last deleted its own row in its sweep, and one row is left
C28_Witness ==
  /\ NoUploadInProgress
  /\ KeepCount = 1
  /\ DistinctTimestamps(BaseCohort)
  /\ Cardinality(RowsOfCohort(published, BaseCohort)) = 2
  /\ Cardinality(RowsOfCohort(catalog, BaseCohort)) = 1
  /\ \E s \in AnsweredUploads :
       /\ IsSuccess(req[s].resp)
       /\ req[s].plan.updateMetadata.id \notin IdsOf(catalog)

\* C29: with MAX_UPDATES_TO_KEEP of 1 or more, a cohort to which an update
\* was published holds a row in every later state, whatever the interleaving
\* of the sweeps and whatever order the sweep's query gives to rows with equal
\* created_at.
C29_CohortNeverEmptiedAgain ==
  KeepCount >= 1 =>
    \A c \in Cohorts :
      RowsOfCohort(published, c) # {} => RowsOfCohort(catalog, c) # {}

====
